---- MODULE Spec2Model ----
(***************************************************************************)
(* heimdallr_client: resolution of an (artifact name, content hash) pair   *)
(* to a live RPC endpoint.  The model covers the cross-process search lock *)
(* (lock_search / release_lock / check_lock over search.lock and           *)
(* search.lock.tmp), the endpoint registry scan (find_rpc, poll_rpc) and   *)
(* the coordinator loop of run(), for several client processes racing on   *)
(* the shared files.                                                       *)
(*                                                                         *)
(* Each filesystem call of the source is one atomic step of the calling    *)
(* process (exists, touch, open+read, open+write+close, replace, remove,   *)
(* unlink); everything a process does between two such calls is local and  *)
(* is folded into the step of the call that follows or precedes it.        *)
(* Time is counted in ticks of 0.5 s, the sleep of both polling loops.     *)
(***************************************************************************)
EXTENDS Integers, Sequences, FiniteSets, TLC

\* ------------------------------------------------------------------------
\* Bounds of the model

\* max_wait of not_exist_wait in ticks (the source passes 10 s = 20 ticks)
MaxWait == 1

\* limit of poll_rpc in ticks (the source's default is 32 s = 64 ticks)
PollLimit == 2

\* ------------------------------------------------------------------------
\* Process ids, requests, files

\* os.getpid() of the competing client processes
Pids == {9, 10}

NoName == "None"

\* (db_name, file_hash) pairs a process may be asked to resolve; db_name is
\* None in compatibility mode
Reqs == {<<"a.i64", "h1">>, <<NoName, "h1">>}

\* f'{os.getpid()}': the decimal digits of the pid, most significant first
RECURSIVE PidStr(_)
PidStr(n) == IF n < 10 THEN <<n>> ELSE Append(PidStr(n \div 10), n % 10)

\* a > b for Python str values (lexicographic by character)
RECURSIVE StrGreater(_, _)
StrGreater(a, b) ==
    IF a = <<>> THEN FALSE
    ELSE IF b = <<>> THEN TRUE
    ELSE IF Head(a) # Head(b) THEN Head(a) > Head(b)
    ELSE StrGreater(Tail(a), Tail(b))

\* Content of search.lock / search.lock.tmp: no file, a zero-length file
\* (what touch() creates; not valid JSON), or a JSON object whose rows are
\* pairs <<pid string, <<name, hash>>>>, one per key.
Absent == [kind |-> "absent", rows |-> {}]
EmptyFile == [kind |-> "empty", rows |-> {}]
Json(rows) == [kind |-> "json", rows |-> rows]

Keys(rows) == {r[1] : r \in rows}

\* locks[os.getpid()] = (idb_name, file_hash) followed by json.dump: the int
\* key is written as its decimal string; on the next json.load a repeated key
\* keeps the value written last, i.e. this one
PutRow(rows, pid, rq) == {r \in rows : r[1] # PidStr(pid)} \cup {<<PidStr(pid), rq>>}

\* if pid_str in locks: locks.pop(pid_str)
PopRow(rows, pid) == {r \in rows : r[1] # PidStr(pid)}

\* ------------------------------------------------------------------------
\* Endpoint registry (rpc_endpoints/)

\* descriptor files of the registry directory
Files == {"e1"}

\* Content of a descriptor file.  "invalid": json.load (or the .get calls on
\* its value) raises; "falsy": JSON that loads to an empty/false value;
\* "object": a JSON object, absent keys modelled as "None".
NoFile == [kind |-> "nofile", file_name |-> "None", file_hash |-> "None", address |-> "None"]
Invalid == [kind |-> "invalid", file_name |-> "None", file_hash |-> "None", address |-> "None"]
Falsy == [kind |-> "falsy", file_name |-> "None", file_hash |-> "None", address |-> "None"]
Obj(n, h, a) == [kind |-> "object", file_name |-> n, file_hash |-> h, address |-> a]

\* what a host process (or a leftover of one) may put into the registry
HostContents == {Obj("a.i64", "h1", "addr"), Obj("a.i64", "h2", "addr"), Invalid}

NotFound == [kind |-> "none", file |-> "None"]
Raised == [kind |-> "raise", file |-> "None"]
Found(f) == [kind |-> "found", file |-> f]

\* the body of the for loop of find_rpc on one descriptor: TRUE when the
\* descriptor is passed over by one of the `continue` statements
find_rpc_skips(e, db_name, file_hash) ==
    \/ e.kind = "falsy"
    \/ db_name # NoName /\ e.file_name # db_name
    \/ e.file_hash # file_hash
    \/ e.address = "None"

\* find_rpc over a directory listing dir = <<file, content>> pairs in glob
\* order, from position i on
RECURSIVE find_rpc_from(_, _, _, _)
find_rpc_from(i, dir, db_name, file_hash) ==
    IF i > Len(dir) THEN NotFound
    ELSE IF dir[i][2].kind = "invalid" THEN Raised
    ELSE IF find_rpc_skips(dir[i][2], db_name, file_hash)
         THEN find_rpc_from(i + 1, dir, db_name, file_hash)
    ELSE Found(dir[i][1])

find_rpc(dir, db_name, file_hash) == find_rpc_from(1, dir, db_name, file_hash)

VARIABLES
    pc,        \* position of each process
    fn,        \* which of lock_search / release_lock the process is in
    req,       \* (db_name, file_hash) of each process
    t,         \* ticks slept in the current polling loop
    locks,     \* local dict `locks` of lock_search / release_lock / check_lock
    exc,       \* exception being handled inside lock_search / release_lock
    outcome,   \* how the try block of run() ended, kept across `finally`
    exitCode,  \* <<code>> once the process has exited, <<>> before
    result,    \* endpoint file returned by find_rpc / poll_rpc
    tmpFile,   \* search.lock.tmp
    lockFile,  \* search.lock
    registry,  \* rpc_endpoints/: file -> descriptor content
    claimed,   \* lock_search returned normally
    released,  \* release_lock returned normally
    polledOut, \* poll_rpc returned None in this process
    checked,   \* what check_lock did in this process
    launched,  \* the try block of run() has started the host application
    scan,      \* a find_rpc call on its own: directory, arguments, result
    loc        \* a search_idb call on its own: files, arguments, result

vars == <<pc, fn, req, t, locks, exc, outcome, exitCode, result, tmpFile,
          lockFile, registry, claimed, released, polledOut, checked, launched,
          scan, loc>>

\* ------------------------------------------------------------------------
\* Outcomes of run()'s try block and exit codes

Returned == [kind |-> "return", code |-> 0]
Exception == [kind |-> "exception", code |-> 0]
\* error_message(error, exit_code): alert, then sys.exit(exit_code)
SysExit(c) == [kind |-> "exit", code |-> c]

\* Exit code of the process once `finally: release_lock()` is over.  An
\* exception (of run's body, or of release_lock, which then replaces whatever
\* was pending) reaches start(), whose handler calls error_message(..., -1);
\* a pending SystemExit passes through start(); a normal return ends with 0.
start_exit_code(out, releaseOk) ==
    IF ~releaseOk \/ out.kind = "exception" THEN -1
    ELSE IF out.kind = "exit" THEN out.code
    ELSE 0

\* time.time() > timeout in not_exist_wait, after `ticks` sleeps of 0.5 s
wait_timed_out(ticks) == ticks > MaxWait

\* (time.time() + backoff) < timeout in poll_rpc, after `ticks` sleeps
poll_in_time(ticks) == ticks + 1 < PollLimit

\* check_lock with the pids compared as numbers instead of as strings
check_lock_numeric(rows, pid, rq) ==
    ~\E r \in rows, q \in Pids :
        /\ r[2] = rq
        /\ r[1] = PidStr(q)
        /\ q # pid
        /\ pid > q

\* check_lock giving way to the greater pid string instead of the smaller
check_lock_reversed(rows, pid, rq) ==
    ~\E r \in rows :
        /\ r[2] = rq
        /\ r[1] # PidStr(pid)
        /\ StrGreater(r[1], PidStr(pid))

\* check_lock's loop: False as soon as a row of another pid with our
\* (name, hash) is found whose pid string is smaller than ours
check_lock(rows, pid, rq) ==
    ~\E r \in rows :
        /\ r[2] = rq
        /\ r[1] # PidStr(pid)
        /\ StrGreater(PidStr(pid), r[1])

\* line 580: the f-string names idb_name, which run() does not define, so a
\* NameError is raised before error_message(..., -6) is called
poll_timeout_outcome == Exception

\* the mutation lock_search / release_lock applies to the loaded dict
mutate(f, rows, pid, rq) ==
    IF f = "lock_search" THEN PutRow(rows, pid, rq) ELSE PopRow(rows, pid)

\* loc when no stand-alone search_idb call is being looked at
NoLoc == [done |-> TRUE]

\* scan when no stand-alone find_rpc call is being looked at
NoScan == [dir |-> <<>>, db_name |-> NoName, file_hash |-> "None", ret |-> NotFound,
           done |-> FALSE]

TypeOK ==
    /\ pc \in [Pids -> {"wait", "sleep", "recheck", "touch", "read", "write",
                        "replace", "h_exists", "h_remove", "check_lock", "find",
                        "launch", "poll", "rpc", "evict", "exited", "crashed"}]
    /\ fn \in [Pids -> {"lock_search", "release_lock"}]
    /\ req \in [Pids -> Reqs]
    /\ t \in [Pids -> 0..(MaxWait + PollLimit + 1)]
    /\ exc \in [Pids -> {"none", "TimeoutError", "RuntimeError",
                         "JSONDecodeError", "FileNotFoundError"}]
    /\ tmpFile.kind \in {"absent", "empty", "json"}
    /\ lockFile.kind \in {"absent", "empty", "json"}
    /\ registry \in [Files -> HostContents \cup {NoFile}]
    /\ claimed \in [Pids -> BOOLEAN]
    /\ released \in [Pids -> BOOLEAN]
    /\ polledOut \in [Pids -> BOOLEAN]
    /\ launched \in [Pids -> BOOLEAN]

Init ==
    /\ pc = [p \in Pids |-> "wait"]
    /\ fn = [p \in Pids |-> "lock_search"]
    /\ req \in [Pids -> Reqs]
    /\ t = [p \in Pids |-> 0]
    /\ locks = [p \in Pids |-> {}]
    /\ exc = [p \in Pids |-> "none"]
    /\ outcome = [p \in Pids |-> Returned]
    /\ exitCode = [p \in Pids |-> <<>>]
    /\ result = [p \in Pids |-> "None"]
    /\ tmpFile = Absent
    /\ lockFile = Absent
    /\ registry \in [Files -> HostContents \cup {NoFile}]
    /\ claimed = [p \in Pids |-> FALSE]
    /\ released = [p \in Pids |-> FALSE]
    /\ polledOut = [p \in Pids |-> FALSE]
    /\ checked = [p \in Pids |-> "no"]
    /\ launched = [p \in Pids |-> FALSE]
    /\ scan = NoScan
    /\ loc = NoLoc

\* ------------------------------------------------------------------------
\* Control transfers shared by the actions

\* run()'s `finally: if locked: release_lock()` entered with the try block
\* having ended as `out`
Finally(p, out) ==
    /\ outcome' = [outcome EXCEPT ![p] = out]
    /\ fn' = [fn EXCEPT ![p] = "release_lock"]
    /\ pc' = [pc EXCEPT ![p] = "wait"]
    /\ t' = [t EXCEPT ![p] = 0]
    /\ exc' = [exc EXCEPT ![p] = "none"]
    /\ locks' = [locks EXCEPT ![p] = {}]

\* lock_search / release_lock returns (ok) or re-raises (~ok)
LockReturn(p, ok) ==
    IF fn[p] = "lock_search"
    THEN /\ claimed' = [claimed EXCEPT ![p] = ok]
         /\ UNCHANGED <<released, exitCode>>
         /\ IF ok
            THEN /\ pc' = [pc EXCEPT ![p] = "check_lock"]
                 /\ locks' = [locks EXCEPT ![p] = {}]
                 /\ exc' = [exc EXCEPT ![p] = "none"]
                 /\ UNCHANGED <<fn, t, outcome>>
            ELSE Finally(p, Exception)
    ELSE /\ released' = [released EXCEPT ![p] = ok]
         /\ exitCode' = [exitCode EXCEPT ![p] = <<start_exit_code(outcome[p], ok)>>]
         /\ pc' = [pc EXCEPT ![p] = "exited"]
         /\ locks' = [locks EXCEPT ![p] = {}]
         /\ exc' = [exc EXCEPT ![p] = "none"]
         /\ outcome' = [outcome EXCEPT ![p] = Returned]
         /\ UNCHANGED <<claimed, fn, t>>

\* an exception raised inside the try of lock_search / release_lock
LockRaise(p, e) ==
    /\ pc' = [pc EXCEPT ![p] = "h_exists"]
    /\ exc' = [exc EXCEPT ![p] = e]
    /\ UNCHANGED <<fn, outcome, exitCode, claimed, released>>

LockGoto(p, label) ==
    /\ pc' = [pc EXCEPT ![p] = label]
    /\ UNCHANGED <<fn, exc, outcome, exitCode, claimed, released>>

\* ------------------------------------------------------------------------
\* lock_search / release_lock (the process is in fn[p])

\* not_exist_wait: `while path.exists()`
not_exist_wait_exists(p) ==
    /\ pc[p] = "wait"
    /\ IF tmpFile.kind # "absent"
       THEN LockGoto(p, "sleep") /\ UNCHANGED t
       ELSE LockGoto(p, "recheck") /\ t' = [t EXCEPT ![p] = 0]
    /\ UNCHANGED <<scan, loc, launched, req, locks, result, tmpFile, lockFile, registry,
                   polledOut, checked>>

\* not_exist_wait called without max_wait: the sleep is never followed by
\* a timeout
not_exist_wait_sleep_no_limit(p) ==
    /\ pc[p] = "sleep"
    /\ LockGoto(p, "wait")
    /\ UNCHANGED <<scan, loc, launched, req, t, locks, result, tmpFile, lockFile, registry,
                   polledOut, checked>>

\* not_exist_wait: time.sleep(0.5), then the timeout test
not_exist_wait_sleep(p) ==
    /\ pc[p] = "sleep"
    /\ IF wait_timed_out(t[p] + 1)
       THEN LockRaise(p, "TimeoutError") /\ t' = [t EXCEPT ![p] = 0]
       ELSE LockGoto(p, "wait") /\ t' = [t EXCEPT ![p] = @ + 1]
    /\ UNCHANGED <<scan, loc, launched, req, locks, result, tmpFile, lockFile, registry,
                   polledOut, checked>>

\* `if tmp_lock_path.exists(): raise RuntimeError`
marker_recheck(p) ==
    /\ pc[p] = "recheck"
    /\ IF tmpFile.kind # "absent"
       THEN LockRaise(p, "RuntimeError")
       ELSE LockGoto(p, "touch")
    /\ UNCHANGED <<scan, loc, launched, req, t, locks, result, tmpFile, lockFile, registry,
                   polledOut, checked>>

\* tmp_lock_path.touch(): creates the file when absent, keeps it otherwise
marker_touch(p) ==
    /\ pc[p] = "touch"
    /\ tmpFile' = IF tmpFile.kind = "absent" THEN EmptyFile ELSE tmpFile
    /\ LockGoto(p, "read")
    /\ UNCHANGED <<scan, loc, launched, req, t, locks, result, lockFile, registry,
                   polledOut, checked>>

\* `if lock_path.exists(): locks = json.load(fd)`, then the mutation of the
\* loaded dict (local)
table_read(p) ==
    /\ pc[p] = "read"
    /\ IF lockFile.kind = "empty"
       THEN LockRaise(p, "JSONDecodeError") /\ UNCHANGED locks
       ELSE /\ locks' = [locks EXCEPT ![p] =
                            mutate(fn[p], lockFile.rows, p, req[p])]
            /\ LockGoto(p, "write")
    /\ UNCHANGED <<scan, loc, launched, req, t, result, tmpFile, lockFile, registry,
                   polledOut, checked>>

\* open(tmp_lock_path, "w"), json.dump, flush, fsync, close
table_write(p) ==
    /\ pc[p] = "write"
    /\ tmpFile' = Json(locks[p])
    /\ LockGoto(p, "replace")
    /\ UNCHANGED <<scan, loc, launched, req, t, locks, result, lockFile, registry,
                   polledOut, checked>>

\* the table written by copying the marker file, which is left in place
table_replace_copies(p) ==
    /\ pc[p] = "replace"
    /\ IF tmpFile.kind = "absent"
       THEN /\ LockRaise(p, "FileNotFoundError")
            /\ UNCHANGED <<t, locks, tmpFile, lockFile>>
       ELSE /\ lockFile' = tmpFile
            /\ UNCHANGED tmpFile
            /\ LockReturn(p, TRUE)
    /\ UNCHANGED <<scan, loc, launched, req, result, registry, polledOut, checked>>

\* os.replace(tmp_lock_path, lock_path), after which the function returns
table_replace(p) ==
    /\ pc[p] = "replace"
    /\ IF tmpFile.kind = "absent"
       THEN /\ LockRaise(p, "FileNotFoundError")
            /\ UNCHANGED <<t, locks, tmpFile, lockFile>>
       ELSE /\ lockFile' = tmpFile
            /\ tmpFile' = Absent
            /\ LockReturn(p, TRUE)
    /\ UNCHANGED <<scan, loc, launched, req, result, registry, polledOut, checked>>

\* except Exception: `if tmp_lock_path.exists()`; when absent, `raise`
handler_exists(p) ==
    /\ pc[p] = "h_exists"
    /\ IF tmpFile.kind # "absent"
       THEN LockGoto(p, "h_remove") /\ UNCHANGED <<t, locks>>
       ELSE LockReturn(p, FALSE)
    /\ UNCHANGED <<scan, loc, launched, req, result, tmpFile, lockFile, registry,
                   polledOut, checked>>

\* the handler renaming the marker over the table instead of removing it
handler_remove_renames(p) ==
    /\ pc[p] = "h_remove"
    /\ lockFile' = tmpFile
    /\ tmpFile' = Absent
    /\ LockReturn(p, FALSE)
    /\ UNCHANGED <<scan, loc, launched, req, result, registry, polledOut, checked>>

\* except Exception: os.remove(tmp_lock_path), then `raise` (os.remove
\* itself raises when the file has gone meanwhile)
handler_remove(p) ==
    /\ pc[p] = "h_remove"
    /\ tmpFile' = Absent
    /\ LockReturn(p, FALSE)
    /\ UNCHANGED <<scan, loc, launched, req, result, lockFile, registry, polledOut,
                   checked>>

\* ------------------------------------------------------------------------
\* run()

\* a try-block step that stays inside the try block
RunGoto(p, label) ==
    /\ pc' = [pc EXCEPT ![p] = label]
    /\ UNCHANGED <<fn, exc, outcome, locks, launched>>

\* the try block ends as `out`: its locals are dead, `finally` runs
RunFinally(p, out) ==
    /\ Finally(p, out)
    /\ result' = [result EXCEPT ![p] = "None"]
    /\ launched' = [launched EXCEPT ![p] = FALSE]

\* the directory listings rpc_path.glob('./*') may produce: the files
\* present, in any order
Listings ==
    LET present == {f \in Files : registry[f].kind # "nofile"}
    IN {l \in UNION {[1..n -> present] : n \in 0..Cardinality(Files)} :
           /\ Len(l) = Cardinality(present)
           /\ \A i, j \in 1..Len(l) : i # j => l[i] # l[j]}

Dir(l) == [i \in 1..Len(l) |-> <<l[i], registry[l[i]]>>]

\* `if not check_lock(db_name, file_hash): raise RuntimeError`
run_check_lock(p) ==
    /\ pc[p] = "check_lock"
    /\ IF lockFile.kind # "json"
       THEN \* open() or json.load() raises
            /\ checked' = [checked EXCEPT ![p] = "raised"]
            /\ RunFinally(p, Exception)
       ELSE /\ IF PidStr(p) \notin Keys(lockFile.rows)
               THEN /\ checked' = [checked EXCEPT ![p] = "raised"]
                    /\ RunFinally(p, Exception)
               ELSE IF check_lock(lockFile.rows, p, req[p])
               THEN /\ checked' = [checked EXCEPT ![p] = "True"]
                    /\ RunGoto(p, "find")
                    /\ UNCHANGED <<t, result>>
               ELSE /\ checked' = [checked EXCEPT ![p] = "False"]
                    /\ RunFinally(p, Exception)
    /\ UNCHANGED <<scan, loc, req, exitCode, tmpFile, lockFile, registry,
                   claimed, released, polledOut>>

\* the head of the while loop launching whatever find_rpc returns
run_find_rpc_launches(p) ==
    /\ pc[p] = "find"
    /\ \E l \in Listings :
         LET r == find_rpc(Dir(l), req[p][1], req[p][2])
         IN IF r.kind = "raise"
            THEN RunFinally(p, Exception)
            ELSE /\ result' = [result EXCEPT ![p] = "None"]
                 /\ RunGoto(p, "launch")
                 /\ UNCHANGED t
    /\ UNCHANGED <<scan, loc, req, exitCode, tmpFile, lockFile, registry,
                   claimed, released, polledOut, checked>>

\* `result = find_rpc(db_name, file_hash)` at the head of the while loop
run_find_rpc(p) ==
    /\ pc[p] = "find"
    /\ \E l \in Listings :
         LET r == find_rpc(Dir(l), req[p][1], req[p][2])
         IN IF r.kind = "raise"
            THEN RunFinally(p, Exception)
            ELSE IF r.kind = "found"
            THEN /\ result' = [result EXCEPT ![p] = r.file]
                 /\ RunGoto(p, "rpc")
                 /\ UNCHANGED t
            ELSE /\ result' = [result EXCEPT ![p] = "None"]
                 /\ RunGoto(p, "launch")
                 /\ UNCHANGED t
    /\ UNCHANGED <<scan, loc, req, exitCode, tmpFile, lockFile, registry,
                   claimed, released, polledOut, checked>>

\* launch_ida: search_idb, then subprocess.run of the host application
launch_ida(p) ==
    /\ pc[p] = "launch"
    /\ \E o \in {"opened", "notfound", "error"} :
         IF o = "opened"
         THEN /\ pc' = [pc EXCEPT ![p] = "poll"]
              /\ t' = [t EXCEPT ![p] = 0]
              /\ launched' = [launched EXCEPT ![p] = TRUE]
              /\ UNCHANGED <<fn, exc, outcome, locks, result>>
         ELSE IF o = "notfound" THEN RunFinally(p, SysExit(1))
         ELSE RunFinally(p, Exception)
    /\ UNCHANGED <<scan, loc, req, exitCode, tmpFile, lockFile, registry,
                   claimed, released, polledOut, checked>>

\* poll_rpc: one turn of its while loop (sleep, find_rpc), or its end with
\* None followed by line 580
poll_rpc(p) ==
    /\ pc[p] = "poll"
    /\ IF poll_in_time(t[p])
       THEN /\ \E l \in Listings :
                 LET r == find_rpc(Dir(l), req[p][1], req[p][2])
                 IN IF r.kind = "raise"
                    THEN RunFinally(p, Exception)
                    ELSE IF r.kind = "found"
                    THEN /\ result' = [result EXCEPT ![p] = r.file]
                         /\ RunGoto(p, "rpc")
                         /\ t' = [t EXCEPT ![p] = 0]
                    ELSE /\ RunGoto(p, "poll")
                         /\ t' = [t EXCEPT ![p] = @ + 1]
                         /\ UNCHANGED result
            /\ UNCHANGED polledOut
       ELSE /\ polledOut' = [polledOut EXCEPT ![p] = TRUE]
            /\ RunFinally(p, poll_timeout_outcome)
    /\ UNCHANGED <<scan, loc, req, exitCode, tmpFile, lockFile, registry,
                   claimed, released, checked>>

\* the RpcError handler unlinking the descriptor whatever the status code
run_rpc_unlinks_first(p) ==
    /\ pc[p] = "rpc"
    /\ \E o \in {"ok", "UNAVAILABLE", "other", "raise"} :
         IF o = "ok" THEN RunFinally(p, Returned) /\ UNCHANGED registry
         ELSE IF o = "UNAVAILABLE"
         THEN RunGoto(p, "evict") /\ UNCHANGED <<t, result, registry>>
         ELSE IF o = "other"
         THEN /\ registry' = [registry EXCEPT ![result[p]] = NoFile]
              /\ RunFinally(p, SysExit(-2))
         ELSE RunFinally(p, Exception) /\ UNCHANGED registry
    /\ UNCHANGED <<scan, loc, req, exitCode, tmpFile, lockFile,
                   claimed, released, polledOut, checked>>

\* the RPC against result[p]: a response, grpc.RpcError with code
\* UNAVAILABLE, grpc.RpcError with another code, or another exception
run_rpc(p) ==
    /\ pc[p] = "rpc"
    /\ \E o \in {"ok", "UNAVAILABLE", "other", "raise"} :
         IF o = "ok" THEN RunFinally(p, Returned)
         ELSE IF o = "UNAVAILABLE"
         THEN RunGoto(p, "evict") /\ UNCHANGED <<t, result>>
         ELSE IF o = "other" THEN RunFinally(p, SysExit(-2))
         ELSE RunFinally(p, Exception)
    /\ UNCHANGED <<scan, loc, req, exitCode, tmpFile, lockFile, registry,
                   claimed, released, polledOut, checked>>

\* path.unlink() of the descriptor that did not respond, then back to the
\* head of the while loop; unlink raises when the file has gone
run_evict(p) ==
    /\ pc[p] = "evict"
    /\ IF registry[result[p]].kind = "nofile"
       THEN RunFinally(p, Exception) /\ UNCHANGED registry
       ELSE /\ registry' = [registry EXCEPT ![result[p]] = NoFile]
            /\ RunGoto(p, "find")
            /\ UNCHANGED <<t, result>>
    /\ UNCHANGED <<scan, loc, req, exitCode, tmpFile, lockFile,
                   claimed, released, polledOut, checked>>

\* ------------------------------------------------------------------------
\* Environment

\* a host application registers its endpoint (or leaves a bad file)
HostRegister(f, c) ==
    /\ registry[f].kind = "nofile"
    /\ registry' = [registry EXCEPT ![f] = c]
    /\ UNCHANGED <<scan, loc, launched, pc, fn, req, t, locks, exc, outcome, exitCode, result,
                   tmpFile, lockFile, claimed, released, polledOut, checked>>

\* a client process dies where it stands; its locals die with it
Crash(p) ==
    /\ pc[p] \notin {"exited", "crashed"}
    /\ pc' = [pc EXCEPT ![p] = "crashed"]
    /\ fn' = [fn EXCEPT ![p] = "release_lock"]
    /\ t' = [t EXCEPT ![p] = 0]
    /\ locks' = [locks EXCEPT ![p] = {}]
    /\ exc' = [exc EXCEPT ![p] = "none"]
    /\ outcome' = [outcome EXCEPT ![p] = Returned]
    /\ result' = [result EXCEPT ![p] = "None"]
    /\ launched' = [launched EXCEPT ![p] = FALSE]
    /\ UNCHANGED <<scan, loc, req, exitCode, tmpFile, lockFile, registry, claimed,
                   released, polledOut, checked>>

Step(p) ==
    \/ not_exist_wait_exists(p)
    \/ not_exist_wait_sleep(p)
    \/ marker_recheck(p)
    \/ marker_touch(p)
    \/ table_read(p)
    \/ table_write(p)
    \/ table_replace(p)
    \/ handler_exists(p)
    \/ handler_remove(p)
    \/ run_check_lock(p)
    \/ run_find_rpc(p)
    \/ launch_ida(p)
    \/ poll_rpc(p)
    \/ run_rpc(p)
    \/ run_evict(p)

Next ==
    \/ \E p \in Pids : Step(p)
    \/ \E f \in Files, c \in HostContents : HostRegister(f, c)
    \/ \E p \in Pids : Crash(p)

Spec == Init /\ [][Next]_vars

\* Two clients asked for the same artifact (a double click), each of which
\* eventually takes its next step as long as it lives
InitFair == Init /\ req = [p \in Pids |-> <<"a.i64", "h1">>]

FairSpec == InitFair /\ [][Next]_vars /\ \A p \in Pids : WF_vars(Step(p))

\* ------------------------------------------------------------------------
\* find_rpc on its own, over small registry directories

\* the contents a descriptor file of such a directory may have
ScanContents ==
    {Invalid, Falsy}
    \cup {Obj(n, h, a) : n \in {"a.i64", "b.i64", "None"}, h \in {"h1", "h2"},
                         a \in {"addr", "None"}}

\* longest directory listing looked at
MaxDir == 2

ScanFiles == {"e1", "e2", "e3"}

\* listings of up to MaxDir files: file i of the listing is ScanFiles' i-th
ScanDirs ==
    LET name(i) == IF i = 1 THEN "e1" ELSE IF i = 2 THEN "e2" ELSE "e3"
    IN UNION {{[i \in 1..n |-> <<name(i), c[i]>>] : c \in [1..n -> ScanContents]} :
                 n \in 0..MaxDir}

InitScan ==
    /\ pc = [p \in Pids |-> "exited"]
    /\ fn = [p \in Pids |-> "release_lock"]
    /\ req = [p \in Pids |-> <<"a.i64", "h1">>]
    /\ t = [p \in Pids |-> 0]
    /\ locks = [p \in Pids |-> {}]
    /\ exc = [p \in Pids |-> "none"]
    /\ outcome = [p \in Pids |-> Returned]
    /\ exitCode = [p \in Pids |-> <<0>>]
    /\ result = [p \in Pids |-> "None"]
    /\ tmpFile = Absent
    /\ lockFile = Absent
    /\ registry = [f \in Files |-> NoFile]
    /\ claimed = [p \in Pids |-> FALSE]
    /\ released = [p \in Pids |-> FALSE]
    /\ polledOut = [p \in Pids |-> FALSE]
    /\ checked = [p \in Pids |-> "no"]
    /\ launched = [p \in Pids |-> FALSE]
    /\ loc = NoLoc
    /\ \E d \in ScanDirs, n \in {"a.i64", NoName}, h \in {"h1", "h2"} :
         scan = [dir |-> d, db_name |-> n, file_hash |-> h, ret |-> NotFound,
                 done |-> FALSE]

\* the call find_rpc(db_name, file_hash) on the directory
ScanCall ==
    /\ ~scan.done
    /\ scan' = [scan EXCEPT !.ret = find_rpc(scan.dir, scan.db_name, scan.file_hash),
                            !.done = TRUE]
    /\ UNCHANGED <<pc, fn, req, t, locks, exc, outcome, exitCode, result, tmpFile,
                   lockFile, registry, claimed, released, polledOut, checked,
                   launched, loc>>

SpecScan == InitScan /\ [][ScanCall]_vars

\* ------------------------------------------------------------------------
\* search_idb on its own.  File names and paths are sequences of characters,
\* so that Path.name, the slices [-3:] and [-4:] and add_extension are
\* computed as the code computes them.

A_I64 == <<"a", ".", "i", "6", "4">>
D_A == <<"d", "/", "a">>
D_A_I64 == <<"d", "/">> \o A_I64
E_A_I64 == <<"e", "/">> \o A_I64

\* db_name when the link carries no name (None; the empty string is falsy too)
NoDbName == <<>>

idb_exts == {<<"i", "d", "b">>, <<"i", "6", "4">>}

\* s[-n:]
Slice(s, n) == IF Len(s) <= n THEN s ELSE SubSeq(s, Len(s) - n + 1, Len(s))

\* Path(p).name: what follows the last "/"
PathName(p) ==
    LET seps == {i \in 1..Len(p) : p[i] = "/"}
    IN IF seps = {} THEN p
       ELSE SubSeq(p, (CHOOSE i \in seps : \A j \in seps : j <= i) + 1, Len(p))

add_extension(path, ext) == path \o ext

\* the files on disk: a set of <<path, input file hash stored in the IDB>>
Exists(fs, path) == \E f \in fs : f[1] = path

verify_db_unchecked(fs, idb_path, file_hash) == TRUE

verify_db(fs, idb_path, file_hash) ==
    \E f \in fs : f[1] = idb_path /\ f[2] = file_hash

\* results of the search functions
NoPath == [kind |-> "None", path |-> <<>>, tier |-> "none"]
SearchRaised == [kind |-> "raise", path |-> <<>>, tier |-> "none"]
Exit1 == [kind |-> "exit", path |-> <<>>, tier |-> "none"]
PathFrom(tier, path) == [kind |-> "path", path |-> path, tier |-> tier]

\* history.2.json and history.json
NoHistory == [kind |-> "absent", files |-> <<>>, hash_table |-> <<>>]
Malformed == [kind |-> "malformed", files |-> <<>>, hash_table |-> <<>>]
HistoryV2(files, hash_table) ==
    [kind |-> "object", files |-> files, hash_table |-> hash_table]
History(files) == [kind |-> "list", files |-> files, hash_table |-> <<>>]

\* None, "raise" (json.load) or the parsed content
get_history_v2(h2) ==
    CASE h2.kind = "absent" -> "None"
      [] h2.kind = "malformed" -> "raise"
      [] OTHER -> "tuple"

get_history(h1) == IF h1.kind = "absent" THEN <<>> ELSE h1.files

\* the loop over hash_table.items(), from entry i on
RECURSIVE hash_table_from(_, _, _, _)
hash_table_from(hash_table, i, db_name, file_hash) ==
    IF i > Len(hash_table) THEN NoPath
    ELSE LET path == hash_table[i][1]
             hash == hash_table[i][2]
         IN IF hash # file_hash
            THEN hash_table_from(hash_table, i + 1, db_name, file_hash)
            ELSE IF db_name # NoDbName /\ db_name # path
            THEN hash_table_from(hash_table, i + 1, db_name, file_hash)
            ELSE PathFrom("hash_table", path)

\* the loop over files, from item i on
RECURSIVE files_from(_, _, _, _, _)
files_from(files, i, db_name, file_hash, fs) ==
    IF i > Len(files) THEN NoPath
    ELSE LET item == files[i]
             adopt == db_name # NoDbName /\ Slice(PathName(item), 3) \notin idb_exts
             idb_path == IF adopt THEN add_extension(item, Slice(db_name, 4))
                         ELSE item
             idb_name == PathName(idb_path)
         IN IF ~Exists(fs, idb_path)
            THEN files_from(files, i + 1, db_name, file_hash, fs)
            ELSE IF db_name # NoDbName /\ idb_name # db_name
            THEN files_from(files, i + 1, db_name, file_hash, fs)
            ELSE IF ~verify_db(fs, idb_path, file_hash)
            THEN files_from(files, i + 1, db_name, file_hash, fs)
            ELSE PathFrom("files", idb_path)

search_history(h2, h1, db_name, file_hash, fs) ==
    LET history == get_history_v2(h2)
    IN IF history = "raise" THEN SearchRaised
       ELSE IF history = "None"
       THEN IF get_history(h1) = <<>>
            THEN NoPath
            ELSE SearchRaised      \* `files, hash_table = history` on None
       ELSE LET tier1 == hash_table_from(h2.hash_table, 1, db_name, file_hash)
            IN IF tier1.kind = "path" THEN tier1
               ELSE files_from(h2.files, 1, db_name, file_hash, fs)

\* is the file below the directory root
Under(root, f) ==
    /\ Len(f) > Len(root) + 1
    /\ SubSeq(f, 1, Len(root)) = root
    /\ f[Len(root) + 1] = "/"

\* the files root.glob yields that verify and can come first among those
GlobVerified(root, db_name, file_hash, fs) ==
    LET below == {f \in fs : Under(root, f[1]) /\ verify_db(fs, f[1], file_hash)}
        ext(e) == {f \in below : Slice(PathName(f[1]), 4) = <<".">> \o e}
    IN IF db_name # NoDbName
       THEN {f[1] : f \in {g \in below : PathName(g[1]) = db_name}}
       ELSE IF ext(<<"i", "6", "4">>) # {}
       THEN {f[1] : f \in ext(<<"i", "6", "4">>)}
       ELSE {f[1] : f \in ext(<<"i", "d", "b">>)}

\* the loop over the search roots, from root i on: the possible results
RECURSIVE idb_path_from(_, _, _, _, _)
idb_path_from(roots, i, db_name, file_hash, fs) ==
    IF i > Len(roots) THEN {NoPath}
    ELSE LET hits == GlobVerified(roots[i], db_name, file_hash, fs)
         IN IF hits = {}
            THEN idb_path_from(roots, i + 1, db_name, file_hash, fs)
            ELSE {PathFrom("idb_path", f) : f \in hits}

\* rebound: an earlier call in this process has replaced the global list
\* idb_path by a map object
search_idb_path(roots, rebound, db_name, file_hash, fs) ==
    IF rebound THEN {SearchRaised}
    ELSE IF roots = <<>> THEN {NoPath}
    ELSE idb_path_from(roots, 1, db_name, file_hash, fs)

\* the possible results of search_idb
search_idb(l) ==
    LET path == search_history(l.history2, l.history, l.db_name, l.file_hash, l.fs)
    IN IF path.kind # "None" THEN {path}
       ELSE {IF r.kind = "None" THEN Exit1 ELSE r :
                r \in search_idb_path(l.roots, l.rebound, l.db_name,
                                      l.file_hash, l.fs)}

\* longest path list and longest hash table of the history files
MaxHist == 1

HistPaths == {D_A, D_A_I64}
TabPaths == {D_A_I64, A_I64}
Hashes == {"h1", "h2"}

SeqsUpTo(S, n) == UNION {[1..k -> S] : k \in 0..n}

FileLists == SeqsUpTo(HistPaths, MaxHist)

HashTables ==
    {tab \in SeqsUpTo(TabPaths \X Hashes, MaxHist) :
        \A i, j \in 1..Len(tab) : i # j => tab[i][1] # tab[j][1]}

Disks ==
    {fs \in SUBSET ({D_A_I64, E_A_I64} \X Hashes) :
        \A f, g \in fs : f[1] = g[1] => f = g}

RootLists == {<<>>, <<<<"d">>>>, <<<<"e">>, <<"d">>>>}

InitLocate ==
    /\ pc = [p \in Pids |-> "exited"]
    /\ fn = [p \in Pids |-> "release_lock"]
    /\ req = [p \in Pids |-> <<"a.i64", "h1">>]
    /\ t = [p \in Pids |-> 0]
    /\ locks = [p \in Pids |-> {}]
    /\ exc = [p \in Pids |-> "none"]
    /\ outcome = [p \in Pids |-> Returned]
    /\ exitCode = [p \in Pids |-> <<0>>]
    /\ result = [p \in Pids |-> "None"]
    /\ tmpFile = Absent
    /\ lockFile = Absent
    /\ registry = [f \in Files |-> NoFile]
    /\ claimed = [p \in Pids |-> FALSE]
    /\ released = [p \in Pids |-> FALSE]
    /\ polledOut = [p \in Pids |-> FALSE]
    /\ checked = [p \in Pids |-> "no"]
    /\ launched = [p \in Pids |-> FALSE]
    /\ scan = NoScan
    /\ \E h2 \in {NoHistory, Malformed}
                   \cup {HistoryV2(f, tab) : f \in FileLists, tab \in HashTables},
          h1 \in {NoHistory} \cup {History(f) : f \in FileLists},
          fs \in Disks, roots \in RootLists, rebound \in BOOLEAN,
          n \in {A_I64, NoDbName} :
         loc = [history2 |-> h2, history |-> h1, fs |-> fs, roots |-> roots,
                rebound |-> rebound, db_name |-> n, file_hash |-> "h1",
                ret |-> NoPath, done |-> FALSE]

\* the call search_idb(db_name, file_hash)
LocateCall ==
    /\ ~loc.done
    /\ \E r \in search_idb(loc) : loc' = [loc EXCEPT !.ret = r, !.done = TRUE]
    /\ UNCHANGED <<pc, fn, req, t, locks, exc, outcome, exitCode, result, tmpFile,
                   lockFile, registry, claimed, released, polledOut, checked,
                   launched, scan>>

SpecLocate == InitLocate /\ [][LocateCall]_vars

\* ------------------------------------------------------------------------
\* Properties

NoCrash == \A p \in Pids : pc[p] # "crashed"

\* the process has a row in search.lock
HasRow(p) == PidStr(p) \in Keys(lockFile.rows)

\* between the creation of search.lock.tmp and the rename over search.lock
InSection(p) == pc[p] \in {"read", "write", "replace"}

\* inside the while loop of run()
InLoop(p) == pc[p] \in {"find", "launch", "poll", "rpc", "evict"}

\* C1: at most one process at a time is between its creation of the marker
\* file and its rename of that file over the lock table.
C1_MutualExclusion ==
    \A p, q \in Pids : p # q => ~(InSection(p) /\ InSection(q))

\* C2: two processes resolving the same (name, hash) are never both inside
\* the find/launch/RPC loop.
C2_SingleResolution ==
    \A p, q \in Pids :
        (p # q /\ req[p] = req[q]) => ~(InLoop(p) /\ InLoop(q))

\* C3: when check_lock runs in a process p while the table holds the rows of
\* p and of another process q, both for the same (name, hash), p gets False
\* if its pid string is the greater one; if it is the smaller one and the two
\* are the only claimants of that (name, hash), p gets True.
C3_LowerIdProceeds ==
    [][\A p, q \in Pids :
          ( /\ p # q
            /\ pc[p] = "check_lock"
            /\ checked'[p] # checked[p]
            /\ lockFile.kind = "json"
            /\ <<PidStr(p), req[p]>> \in lockFile.rows
            /\ <<PidStr(q), req[p]>> \in lockFile.rows )
          => IF StrGreater(PidStr(p), PidStr(q))
             THEN checked'[p] = "False"
             ELSE ( {r \in lockFile.rows : r[2] = req[p]}
                        = {<<PidStr(p), req[p]>>, <<PidStr(q), req[p]>>}
                    => checked'[p] = "True" )]_vars

\* C3 witness: both claimants have run check_lock on the same (name, hash);
\* the one whose pid string is smaller went on, the other was refused.
C3_Witness ==
    \E p, q \in Pids :
        /\ req[p] = req[q]
        /\ StrGreater(PidStr(q), PidStr(p))
        /\ p > q
        /\ checked[p] = "True"
        /\ checked[q] = "False"

\* C4: once run() has exited after its claim was written, the caller's row is
\* absent from the lock table (stated for executions without crashes, where
\* it already fails).
C4_ReleasedOnExit ==
    NoCrash =>
        \A p \in Pids : (pc[p] = "exited" /\ claimed[p]) => ~HasRow(p)

\* C5: when no process crashes, the table holds a row for a process exactly
\* when that process has completed lock_search and not yet release_lock.
C5_RowIffClaim ==
    NoCrash =>
        \A p \in Pids : HasRow(p) <=> (claimed[p] /\ ~released[p])

\* C6: a call whose marker wait timed out leaves the marker file in place.
C6_MarkerKeptOnTimeout ==
    [][\A p \in Pids :
          (exc[p] = "TimeoutError" /\ pc'[p] # pc[p] /\ pc'[p] # "crashed")
          => tmpFile' = tmpFile]_vars

\* C7: a process goes through the evict step only finitely often.
C7_RetryBounded == \A p \in Pids : <>[](pc[p] # "evict")

\* C8: a process whose poll_rpc timed out exits with code -6 and has no row
\* left in the lock table.
C8_PollTimeoutExit ==
    \A p \in Pids :
        (pc[p] = "exited" /\ polledOut[p]) => (exitCode[p] = <<-6>> /\ ~HasRow(p))

\* C9: the marker wait and the endpoint poll each come to an end.
C9_WaitsBounded ==
    \A p \in Pids :
        /\ (pc[p] \in {"wait", "sleep"}) ~> (pc[p] \notin {"wait", "sleep"})
        /\ (pc[p] = "poll") ~> (pc[p] # "poll")

\* C9 witness: a process whose poll ended with None is in the handler of a
\* marker wait that ended with TimeoutError.
C9_Witness == \E p \in Pids : polledOut[p] /\ exc[p] = "TimeoutError"

\* a descriptor the scan should pass over: not loadable, empty, or without
\* an address
BadDescriptor(e) == e.kind \in {"invalid", "falsy"} \/ e.address = "None"

\* a well-formed descriptor matching the arguments of the scan
Matching(e) ==
    /\ e.kind = "object"
    /\ e.address # "None"
    /\ e.file_hash = scan.file_hash
    /\ scan.db_name # NoName => e.file_name = scan.db_name

\* C10: with one bad and one well-formed matching descriptor, in either
\* order, find_rpc returns the matching one; with only bad descriptors it
\* returns not-found.
C10_BadDescriptorSkipped ==
    scan.done =>
        /\ \A i, j \in 1..Len(scan.dir) :
               ( /\ Len(scan.dir) = 2
                 /\ i # j
                 /\ BadDescriptor(scan.dir[i][2])
                 /\ Matching(scan.dir[j][2]) )
               => scan.ret = Found(scan.dir[j][1])
        /\ (\A i \in 1..Len(scan.dir) : BadDescriptor(scan.dir[i][2]))
               => scan.ret = NotFound


\* the file at the path holds the hash, read off the disk
OnDiskWithHash(path, hash) == <<path, hash>> \in loc.fs

\* C11 (as stated): every path search_idb returns, from whichever tier, is
\* that of a file on disk whose hash is the requested one.
C11_ReturnedPathVerifies ==
    (loc.done /\ loc.ret.kind = "path")
        => OnDiskWithHash(loc.ret.path, loc.file_hash)

\* C11 (amended): a path returned from the path list of the history or from
\* a search root is that of a file on disk whose hash is the requested one;
\* a path returned from the hash table is one the table records with the
\* requested hash.
C11_SearchedPathVerifies ==
    (loc.done /\ loc.ret.kind = "path")
        => /\ loc.ret.tier \in {"files", "idb_path"}
                => OnDiskWithHash(loc.ret.path, loc.file_hash)
           /\ loc.ret.tier = "hash_table"
                => \E i \in 1..Len(loc.history2.hash_table) :
                       loc.history2.hash_table[i] = <<loc.ret.path, loc.file_hash>>

\* a path list entry was returned while another file on disk has another hash
C11_Witness ==
    /\ loc.done
    /\ loc.ret.kind = "path"
    /\ loc.ret.tier = "files"
    /\ \E f \in loc.fs : f[2] # loc.file_hash

\* what the path list of a history file should yield
LegacyExpected == files_from(loc.history.files, 1, loc.db_name, loc.file_hash, loc.fs)

\* C12: when history.2.json is absent or malformed and history.json lists a
\* path whose file (after adopting the extension of the name) exists, has the
\* requested name and verifies, search_idb returns that path.
C12_LegacyFallback ==
    ( /\ loc.done
      /\ loc.history2.kind \in {"absent", "malformed"}
      /\ loc.history.kind = "list"
      /\ LegacyExpected.kind = "path" )
        => (loc.ret.kind = "path" /\ loc.ret.path = LegacyExpected.path)

\* C15: when no file on disk has the requested hash, search_idb ends in
\* error_message(..., 1), that is exit code 1 before IDA is launched.
C15_NotFoundExit ==
    (loc.done /\ \A f \in loc.fs : f[2] # loc.file_hash)
        => loc.ret = Exit1

\* entries of the hash table with the requested hash whose last path segment
\* is the requested name
TableMatches ==
    {i \in 1..Len(loc.history2.hash_table) :
        /\ loc.history2.hash_table[i][2] = loc.file_hash
        /\ loc.db_name # NoDbName
              => PathName(loc.history2.hash_table[i][1]) = loc.db_name}

\* C20: when history.2.json is loaded and its hash table has an entry with
\* the requested hash whose last path segment is the requested name (any
\* entry with the hash when no name is given), search_idb returns the path
\* of the first such entry, from the hash table.
C20_HashTableTier ==
    (loc.done /\ loc.history2.kind = "object" /\ TableMatches # {})
        => LET first == CHOOSE i \in TableMatches : \A j \in TableMatches : i <= j
           IN loc.ret = PathFrom("hash_table", loc.history2.hash_table[first][1])


\* the descriptor is one find_rpc returns for the request of p
MatchFor(p, e) ==
    /\ e.kind = "object"
    /\ e.file_hash = req[p][2]
    /\ req[p][1] # NoName => e.file_name = req[p][1]
    /\ e.address # "None"

\* C13: a process at the unlink that follows an UNAVAILABLE answer deletes
\* the descriptor file and is next at the head of the loop, querying the
\* registry again; the query sends it to the RPC only with a descriptor that
\* is in the registry then.  (Stated for a process whose (name, hash) no
\* other process asks for, which no working lock would keep out of the loop.)
C13_EvictThenRetry ==
    [][\A p \in Pids :
          /\ ( /\ pc[p] = "evict"
               /\ pc'[p] \notin {"evict", "crashed"}
               /\ \A q \in Pids \ {p} : req[q] # req[p] )
                => (pc'[p] = "find" /\ registry'[result[p]] = NoFile)
          /\ (pc[p] = "find" /\ pc'[p] = "rpc")
                => MatchFor(p, registry[result'[p]])]_vars

\* C14: the launch is entered only from the head of the loop, by a query of
\* a registry that holds no descriptor matching the request; a query that
\* finds a matching descriptor leads to the RPC against it without a launch,
\* and an RPC that is answered ends the try block as returned, the next
\* step being release_lock.
C14_LaunchOnlyAfterNoMatch ==
    [][\A p \in Pids :
          /\ (pc'[p] = "launch" /\ pc[p] # "launch")
                => (pc[p] = "find" /\ \A f \in Files : ~MatchFor(p, registry[f]))
          /\ (pc[p] = "find" /\ pc'[p] = "rpc")
                => (MatchFor(p, registry[result'[p]]) /\ launched'[p] = launched[p])
          /\ (pc[p] = "rpc" /\ pc'[p] = "wait" /\ outcome'[p] = Returned)
                => (fn'[p] = "release_lock" /\ ~launched'[p])
          /\ (launched'[p] /\ ~launched[p]) => pc[p] = "launch"]_vars

\* C14 witness: the query found a matching descriptor and the process is at
\* the RPC without having launched the host application.
C14_Witness ==
    \E p \in Pids :
        /\ pc[p] = "rpc"
        /\ ~launched[p]
        /\ MatchFor(p, registry[result[p]])

\* C16: check_lock gives False to a process only when the table holds, for
\* the same (name, hash), the row of another process that has not crashed.
C16_AbandonedRowTolerated ==
    [][\A p \in Pids :
          (pc[p] = "check_lock" /\ checked'[p] = "False" /\ checked[p] # "False")
              => \E q \in Pids \ {p} :
                     /\ pc[q] # "crashed"
                     /\ <<PidStr(q), req[p]>> \in lockFile.rows]_vars

\* the table holds, next to the row of p, a row of another pid for the
\* (name, hash) of p whose pid string compares to that of p as Cmp says
OtherRow(p, Cmp(_, _)) ==
    /\ lockFile.kind = "json"
    /\ HasRow(p)
    /\ \E r \in lockFile.rows :
           r[2] = req[p] /\ r[1] # PidStr(p) /\ Cmp(r[1], PidStr(p))

StrLess(a, b) == StrGreater(b, a)

\* C17 (as stated): a process whose check_lock finds a row of another pid
\* for its (name, hash) that sorts higher than its own gets False.
C17_HigherOtherAborts ==
    [][\A p \in Pids :
          ( /\ pc[p] = "check_lock"
            /\ pc'[p] \notin {"check_lock", "crashed"}
            /\ OtherRow(p, StrGreater) )
          => checked'[p] = "False"]_vars

\* C17 (amended): a process whose check_lock finds a row of another pid for
\* its (name, hash) that sorts lower than its own gets False, and run() ends
\* its try block with the RuntimeError, going to release_lock.
C17_LowerOtherAborts ==
    [][\A p \in Pids :
          ( /\ pc[p] = "check_lock"
            /\ pc'[p] \notin {"check_lock", "crashed"}
            /\ OtherRow(p, StrLess) )
          => ( /\ checked'[p] = "False"
               /\ outcome'[p] = Exception
               /\ pc'[p] = "wait"
               /\ fn'[p] = "release_lock" )]_vars

\* C17 witness: a process was refused by check_lock and is releasing with
\* the RuntimeError pending, the row of the other claimant still in the table.
C17_Witness ==
    \E p \in Pids :
        /\ checked[p] = "False"
        /\ outcome[p] = Exception
        /\ fn[p] = "release_lock"
        /\ OtherRow(p, StrLess)

\* C18: no step of a lock_search whose wait for the marker times out changes
\* search.lock, and the call ends by raising: the try block of run() ends
\* with the exception and no claim.
C18_TimeoutKeepsTable ==
    [][\A p \in Pids :
          ( /\ fn[p] = "lock_search"
            /\ exc[p] = "TimeoutError" \/ pc[p] \in {"wait", "sleep"}
            /\ pc'[p] # pc[p] \/ t'[p] # t[p] )
          => /\ lockFile' = lockFile
             /\ (exc[p] = "TimeoutError" /\ pc'[p] = "wait")
                   => ( /\ fn'[p] = "release_lock"
                        /\ outcome'[p] = Exception
                        /\ ~claimed'[p] )]_vars

\* C18 witness: the wait of a lock_search has timed out while the table
\* holds rows.
C18_Witness ==
    \E p \in Pids :
        /\ fn[p] = "lock_search"
        /\ exc[p] = "TimeoutError"
        /\ lockFile.kind = "json"
        /\ lockFile.rows # {}

\* C19: an RPC error other than UNAVAILABLE ends the try block with
\* sys.exit(-2) in the same step, the registry untouched; from then on the
\* process is never again in the loop, and it exits with -2 or -1.
C19_OtherRpcErrorFails ==
    [][\A p \in Pids :
          /\ (pc[p] = "rpc" /\ outcome'[p] = SysExit(-2))
                => (registry' = registry /\ pc'[p] = "wait" /\ fn'[p] = "release_lock")
          /\ outcome[p] = SysExit(-2)
                => /\ ~InLoop(p) /\ pc'[p] \notin {"find", "launch", "poll", "rpc", "evict"}
                   /\ ~launched'[p]
                   /\ pc'[p] = "exited" => exitCode'[p] \in {<<-2>>, <<-1>>}]_vars

\* C19 witness: the try block has ended with sys.exit(-2) and the descriptor
\* is still in the registry.
C19_Witness ==
    \E p \in Pids :
        /\ outcome[p] = SysExit(-2)
        /\ \E f \in Files : MatchFor(p, registry[f])


\* the process is executing lock_search or release_lock
InLockCall(p) ==
    pc[p] \in {"wait", "sleep", "recheck", "touch", "read", "write", "replace",
               "h_exists", "h_remove"}

\* C21: the rename that completes a lock_search leaves in search.lock the
\* table it held just before, with the caller's row put in; the rename that
\* completes a release_lock leaves that table with the caller's row taken
\* out; the rows of the other processes are as they were.
C21_OnlyOwnRow ==
    [][\A p \in Pids :
          (pc[p] = "replace" /\ pc'[p] \in {"check_lock", "exited"})
              => /\ lockFile'.kind = "json"
                 /\ lockFile'.rows =
                        IF fn[p] = "lock_search"
                        THEN PutRow(lockFile.rows, p, req[p])
                        ELSE PopRow(lockFile.rows, p)]_vars

\* C22: when no process has crashed and none is executing lock_search or
\* release_lock, search.lock.tmp does not exist.
C22_NoLeftoverMarker ==
    (NoCrash /\ \A p \in Pids : ~InLockCall(p)) => tmpFile.kind = "absent"

\* C22 witness: no crash, no process inside lock_search or release_lock, one
\* of which ended by a successful rename and another by an exception.
C22_Witness ==
    /\ NoCrash
    /\ \A p \in Pids : ~InLockCall(p)
    /\ \E p \in Pids : claimed[p]
    /\ \E p \in Pids : pc[p] = "exited" /\ (~claimed[p] \/ ~released[p])
    /\ tmpFile.kind = "absent"

====
